---------------------------- MODULE Spec2Model ----------------------------
(***************************************************************************)
(* Model of the mgc-sdk-go service objects: NodePoolService (kubernetes),  *)
(* SnapshotService (compute), NetworkHealthCheckService (lbaas) and        *)
(* CredentialsService (containerregistry).                                 *)
(*                                                                         *)
(* A Go string is a sequence of one-character strings, so that path        *)
(* templating, strconv.Itoa, strings.Join and url.Values.Encode are        *)
(* computed character by character.  A Go pointer (and a slice that may be *)
(* nil) is a sequence of length at most one: << >> is nil, << x >> points  *)
(* at x.                                                                   *)
(*                                                                         *)
(* One invocation of a service method is followed from the call to its     *)
(* return: the method's own code up to the point where the request is      *)
(* handed to the execute helper is one step (the operation's action), the  *)
(* helper's answer and the method's return is the next (Deliver).          *)
(***************************************************************************)
EXTENDS Integers, Sequences, FiniteSets, TLC

VARIABLES
    pc,         \* "idle" | "inflight" (request handed to the execute helper) | "returned"
    op,         \* the operation being invoked ("" when idle)
    args,       \* its arguments
    ctorCalls,  \* the calls made to the request constructor (newRequest) in this invocation
    ctorErr,    \* the error the request constructor reported in this invocation
    sent,       \* the requests handed to the execute helper in this invocation
    doErr,      \* the error the execute helper reported in this invocation
    result,     \* the value returned to the caller
    err,        \* the error returned to the caller
    prev,       \* the route (operation, id, verb, path) of the previous snapshot request
    last,       \* the arguments and the requests of the previous NodePool.List invocation
    calls,      \* the invocation of each of two concurrent callers
    client      \* the client each service object holds, shared by its callers

vars == <<pc, op, args, ctorCalls, ctorErr, sent, doErr, result, err, prev, last, calls, client>>

-----------------------------------------------------------------------------
(* Bounds of the model *)

\* Largest magnitude of an integer option (Limit, Offset) the callers pass.
MaxInt == 120

-----------------------------------------------------------------------------
(* Go strings and the standard-library functions the services call *)

Empty == << >>

\* A nil pointer or nil slice, and a pointer to x.
Nil == << >>
Ptr(x) == << x >>

Digits == <<"0", "1", "2", "3", "4", "5", "6", "7", "8", "9">>

\* strconv.Itoa: the decimal digits of n, most significant first, "-" before a negative.
RECURSIVE Itoa(_)
Itoa(n) ==
    IF n < 0 THEN <<"-">> \o Itoa(0 - n)
    ELSE IF n < 10 THEN << Digits[n + 1] >>
    ELSE Itoa(n \div 10) \o << Digits[(n % 10) + 1] >>

\* strings.Join: the elements in order, sep between two neighbours.
RECURSIVE Join(_, _)
Join(elems, sep) ==
    IF Len(elems) = 0 THEN Empty
    ELSE IF Len(elems) = 1 THEN elems[1]
    ELSE elems[1] \o sep \o Join(Tail(elems), sep)

\* fmt.Sprintf for a format whose only verbs are %s: each %s is replaced by
\* the next argument, every other character is copied.
RECURSIVE Sprintf(_, _)
Sprintf(format, a) ==
    IF Len(format) = 0 THEN Empty
    ELSE IF Len(format) >= 2 /\ format[1] = "%" /\ format[2] = "s" /\ Len(a) > 0
         THEN a[1] \o Sprintf(SubSeq(format, 3, Len(format)), Tail(a))
    ELSE << format[1] >> \o Sprintf(Tail(format), a)

\* net/url shouldEscape in query-component mode: letters, digits and -_.~ are kept.
Unreserved ==
    {"a", "b", "c", "d", "e", "f", "g", "h", "i", "j", "k", "l", "m", "n", "o",
     "p", "q", "r", "s", "t", "u", "v", "w", "x", "y", "z"}
    \cup {Digits[i] : i \in 1..10} \cup {"-", "_", ".", "~"}

\* The upper-case hexadecimal code of the other characters the callers use.
HexOf(c) ==
    CASE c = "," -> <<"2", "C">>
      [] c = "/" -> <<"2", "F">>
      [] c = ":" -> <<"3", "A">>
      [] c = "=" -> <<"3", "D">>
      [] c = "&" -> <<"2", "6">>
      [] c = "%" -> <<"2", "5">>
      [] c = "+" -> <<"2", "B">>
      [] c = "?" -> <<"3", "F">>

\* url.QueryEscape: a space becomes "+", an unreserved character is kept,
\* any other becomes "%" and its two hexadecimal digits.
RECURSIVE QueryEscape(_)
QueryEscape(s) ==
    IF Len(s) = 0 THEN Empty
    ELSE (IF s[1] \in Unreserved THEN << s[1] >>
          ELSE IF s[1] = " " THEN <<"+">>
          ELSE <<"%">> \o HexOf(s[1]))
         \o QueryEscape(Tail(s))

\* The four query keys of the services, in the byte order url.Values.Encode sorts them.
keyLimit == <<"_", "l", "i", "m", "i", "t">>
keyOffset == <<"_", "o", "f", "f", "s", "e", "t">>
keySort == <<"_", "s", "o", "r", "t">>
keyExpand == <<"e", "x", "p", "a", "n", "d">>
SortedKeys == << keyLimit, keyOffset, keySort, keyExpand >>

\* url.Values: the (key, value) pairs in the order they were added.
NoValues == << >>

\* url.Values.Add
Add(q, key, value) == Append(q, << key, value >>)

HasKey(q, key) == \E i \in 1..Len(q) : q[i][1] = key

\* url.Values.Get: the first value of the key.
Get(q, key) == q[CHOOSE i \in 1..Len(q) : q[i][1] = key /\ \A j \in 1..(i - 1) : q[j][1] # key][2]

\* url.Values.Encode: key=value pairs, keys sorted, both escaped, joined by "&".
Encode(q) ==
    LET present == SelectSeq(SortedKeys, LAMBDA k : HasKey(q, k))
        pair(k) == QueryEscape(k) \o <<"=">> \o QueryEscape(Get(q, k))
    IN  Join([i \in 1..Len(present) |-> pair(present[i])], <<"&">>)

-----------------------------------------------------------------------------
(* Errors, results and responses *)

\* utils.CannotBeEmpty, the message of every validation error.
CannotBeEmpty == "cannot be empty"

NoErr == [kind |-> "nil", Field |-> "", Message |-> ""]

\* &client.ValidationError{Field: f, Message: utils.CannotBeEmpty}
ValidationError(f) == [kind |-> "ValidationError", Field |-> f, Message |-> CannotBeEmpty]

\* The errors of the collaborators: the request constructor fails to build
\* the request; the execute helper fails on the connection, on a
\* non-success status or on a body it cannot decode.
ErrNewRequest == [kind |-> "newRequest", Field |-> "", Message |-> "build"]
CtorOutcomes == {NoErr, ErrNewRequest}
DoErrs ==
    {[kind |-> "transport", Field |-> "", Message |-> "connection refused"],
     [kind |-> "status", Field |-> "", Message |-> "500"],
     [kind |-> "decode", Field |-> "", Message |-> "unexpected end of JSON"]}

\* The decoded response bodies: each has an id and a list of results.
Payloads == {"p1", "p2"}
PayloadID(p) == IF p = "p1" THEN <<"i", "d", "1">> ELSE Empty
PayloadResults(p) == IF p = "p1" THEN <<"r1", "r2">> ELSE << >>

\* What the execute helper answers: an error, or a decoded response.
DoOutcomes ==
    {[err |-> e, payload |-> ""] : e \in DoErrs}
    \cup {[err |-> NoErr, payload |-> p] : p \in Payloads}

\* The values a method returns beside its error: nil (pointer or slice), a
\* pointer to the decoded response, a slice, a string, or nothing at all.
NilResult == [kind |-> "nil", v |-> << >>]
PtrResult(p) == [kind |-> "ptr", v |-> << p >>]
SliceResult(s) == [kind |-> "slice", v |-> s]
StringResult(s) == [kind |-> "string", v |-> s]
NoResult == [kind |-> "void", v |-> << >>]

-----------------------------------------------------------------------------
(* The shared client and the execute helpers *)

\* One call of the client's request constructor, newRequest(ctx, method, path, body).
NewRequestCall(ctx, method, path, body) ==
    [ctx |-> ctx, method |-> method, path |-> path, body |-> body]

\* A struct field as encoding/json sees it: the Go name, the key of its
\* tag ("-" for a field left out), the omitempty option, and its kind:
\* "value", "ptr" (pointer to a scalar or a slice), or the name of the
\* struct a pointer field points to.
Field(go, key, omitempty, kind) ==
    [go |-> go, key |-> key, omitempty |-> omitempty, kind |-> kind]

AutoScaleFields ==
    { Field("MinReplicas", "min_replicas", FALSE, "ptr"),
      Field("MaxReplicas", "max_replicas", FALSE, "ptr") }

CreateNodePoolRequestFields ==
    { Field("Name", "name", FALSE, "value"),
      Field("Flavor", "flavor", FALSE, "value"),
      Field("Replicas", "replicas", FALSE, "value"),
      Field("Tags", "tags", TRUE, "ptr"),
      Field("Taints", "taints", TRUE, "ptr"),
      Field("AutoScale", "auto_scale", TRUE, "AutoScale"),
      Field("MaxPodsPerNode", "max_pods_per_node", TRUE, "ptr"),
      Field("AvailabilityZones", "availability_zones", TRUE, "ptr") }

CreateSnapshotRequestFields ==
    { Field("Name", "name", FALSE, "value"),
      Field("Instance", "instance", FALSE, "value") }

CreateNetworkHealthCheckRequestFields ==
    { Field("LoadBalancerID", "-", FALSE, "value"),
      Field("Name", "name", FALSE, "value"),
      Field("Description", "description", TRUE, "ptr"),
      Field("Protocol", "protocol", FALSE, "value"),
      Field("Path", "path", TRUE, "ptr"),
      Field("Port", "port", FALSE, "value"),
      Field("HealthyStatusCode", "healthy_status_code", TRUE, "ptr"),
      Field("IntervalSeconds", "interval_seconds", TRUE, "ptr"),
      Field("TimeoutSeconds", "timeout_seconds", TRUE, "ptr"),
      Field("InitialDelaySeconds", "initial_delay_seconds", TRUE, "ptr"),
      Field("HealthyThresholdCount", "healthy_threshold_count", TRUE, "ptr"),
      Field("UnhealthyThresholdCount", "unhealthy_threshold_count", TRUE, "ptr") }

FieldsOf(kind) == CASE kind = "AutoScale" -> AutoScaleFields

\* json.Marshal of a struct value: the set of (key path, value) members of
\* the object written. A field tagged "-" is skipped; an empty field with
\* omitempty (a nil pointer; 0, "" or false in a field that is no pointer)
\* is left out; a nil pointer without omitempty is written null.
RECURSIVE MarshalStruct(_, _, _)
MarshalStruct(fields, v, prefix) ==
    UNION { LET path == Append(prefix, f.key)
                val == v[f.go]
            IN  IF f.key = "-" THEN {}
                ELSE IF f.kind = "value"
                THEN IF f.omitempty /\ val \in {"0", "", "false"} THEN {} ELSE { <<path, val>> }
                ELSE IF val = Nil
                THEN IF f.omitempty THEN {} ELSE { <<path, "null">> }
                ELSE IF f.kind = "ptr" THEN { <<path, val[1]>> }
                ELSE { <<path, "{}">> } \cup MarshalStruct(FieldsOf(f.kind), val[1], path)
          : f \in fields }

\* The JSON object written for a request body; the members of the bodies
\* of the other requests are not modelled.
Marshal(body) ==
    IF body = Nil THEN {}
    ELSE CASE body[1] = "CreateNodePoolRequest" ->
                  MarshalStruct(CreateNodePoolRequestFields, body[2], << >>)
           [] body[1] = "CreateSnapshotRequest" ->
                  MarshalStruct(CreateSnapshotRequestFields, body[2], << >>)
           [] body[1] = "CreateNetworkHealthCheckRequest" ->
                  MarshalStruct(CreateNetworkHealthCheckRequestFields, body[2], << >>)
           [] OTHER -> {}

\* The request newRequest builds when it succeeds: the verb, the path and
\* the body it was given, and no query.
newRequest(call) ==
    [ctx |-> call.ctx, method |-> call.method, path |-> call.path,
     rawQuery |-> Empty, body |-> call.body, json |-> Marshal(call.body)]

\* One call of the execute helper, mgc_http.Do(cfg, ctx, req, &resp).
DoCall(ctx, req) == [ctx |-> ctx, req |-> req]

\* What a method has done when it returns or blocks in the execute helper:
\* the constructor calls it made, the requests it handed over, and, when it
\* has returned already, what it returned.
Returned(res, e) == [ctor |-> << >>, sent |-> << >>, result |-> res, err |-> e]
CtorFailed(call, res, e) == [ctor |-> << call >>, sent |-> << >>, result |-> res, err |-> e]
Handed(call, do) == [ctor |-> << call >>, sent |-> << do >>, result |-> NilResult, err |-> NoErr]
Return(res, e) == [result |-> res, err |-> e]

\* mgc_http.ExecuteSimpleRequestWithRespBody[T] and mgc_http.ExecuteSimpleRequest
\* up to the request's execution: build the request with the constructor it
\* was given, return its error, else set the query (when one was given) and
\* execute the request once.
ExecuteSimpleRequestStart(ctx, method, path, body, query, zero, ce) ==
    LET call == NewRequestCall(ctx, method, path, body)
        req == newRequest(call)
        withQuery == IF query = Nil THEN req ELSE [req EXCEPT !.rawQuery = Encode(query[1])]
    IN  IF ce # NoErr THEN CtorFailed(call, zero, ce)
        ELSE Handed(call, DoCall(ctx, withQuery))

\* ExecuteSimpleRequestWithRespBody[T] after the execution: (nil, err) or (&resp, nil).
ExecuteSimpleRequestWithRespBody(out) ==
    IF out.err # NoErr THEN Return(NilResult, out.err)
    ELSE Return(PtrResult(out.payload), NoErr)

\* ExecuteSimpleRequest after the execution: the error, or nil.
ExecuteSimpleRequest(out) == Return(NoResult, out.err)

-----------------------------------------------------------------------------
(* The arguments of an invocation *)

\* Every operation's arguments as one record; an operation reads its own.
NoArgs ==
    [ctx |-> "", clusterID |-> Empty, nodePoolID |-> Empty, lbID |-> Empty,
     hcID |-> Empty, id |-> Empty, limit |-> Nil, offset |-> Nil, sort |-> Nil,
     expand |-> Nil, body |-> "", newName |-> Empty]

\* len(s) and the elements of a slice that may be nil.
SliceLen(s) == IF s = Nil THEN 0 ELSE Len(s[1])
SliceElems(s) == IF s = Nil THEN << >> ELSE s[1]

-----------------------------------------------------------------------------
(* kubernetes: nodePoolService *)

nodePoolIdField == "nodePoolID"
clusterIdField == "clusterID"
clusterNodepoolURL == <<"/", "v", "0", "/", "c", "l", "u", "s", "t", "e", "r", "s", "/", "%", "s", "/", "n", "o", "d", "e", "_", "p", "o", "o", "l", "s", "/", "%", "s">>
nodesSuffix == <<"/", "n", "o", "d", "e", "s">>
\* The list path under the prefix of the other operations.
nodePoolListURLv0 == <<"/", "v", "0", "/", "c", "l", "u", "s", "t", "e", "r", "s", "/", "%", "s", "/", "n", "o", "d", "e", "_", "p", "o", "o", "l", "s">>

nodePoolListURL == <<"/", "v", "1", "a", "l", "p", "h", "a", "0", "/", "c", "l", "u", "s", "t", "e", "r", "s", "/", "%", "s", "/", "n", "o", "d", "e", "-", "p", "o", "o", "l", "s">>
nodePoolCreateURL == <<"/", "v", "0", "/", "c", "l", "u", "s", "t", "e", "r", "s", "/", "%", "s", "/", "n", "o", "d", "e", "_", "p", "o", "o", "l", "s">>

\* Nodes, up to the request's execution.
nodePoolNodes(a, ce) ==
    IF a.clusterID = Empty THEN Returned(NilResult, ValidationError(clusterIdField))
    ELSE IF a.nodePoolID = Empty THEN Returned(NilResult, ValidationError(nodePoolIdField))
    ELSE ExecuteSimpleRequestStart(a.ctx, "GET",
            Sprintf(clusterNodepoolURL \o nodesSuffix, << a.clusterID, a.nodePoolID >>),
            Nil, Nil, NilResult, ce)

\* Nodes, from the helper's answer: (nil, err) or (resp.Results, nil).
nodePoolNodesReturn(out) ==
    LET r == ExecuteSimpleRequestWithRespBody(out)
    IN  IF r.err # NoErr THEN Return(NilResult, r.err)
        ELSE Return(SliceResult(PayloadResults(r.result.v[1])), NoErr)

\* The query of List with the expand parameter the snapshot List sends.
nodePoolListQueryWithExpand(a) ==
    LET q1 == IF a.limit # Nil THEN Add(NoValues, keyLimit, Itoa(a.limit[1])) ELSE NoValues
        q2 == IF a.offset # Nil THEN Add(q1, keyOffset, Itoa(a.offset[1])) ELSE q1
        q3 == IF a.sort # Nil THEN Add(q2, keySort, a.sort[1]) ELSE q2
        q4 == IF SliceLen(a.expand) > 0
              THEN Add(q3, keyExpand, Join(SliceElems(a.expand), <<",">>)) ELSE q3
    IN  q4

\* The query List builds from its options.
nodePoolListQuery(a) ==
    LET q1 == IF a.limit # Nil THEN Add(NoValues, keyLimit, Itoa(a.limit[1])) ELSE NoValues
        q2 == IF a.offset # Nil THEN Add(q1, keyOffset, Itoa(a.offset[1])) ELSE q1
        q3 == IF a.sort # Nil THEN Add(q2, keySort, a.sort[1]) ELSE q2
    IN  q3

\* List, up to the request's execution.
nodePoolList(a, ce) ==
    IF a.clusterID = Empty THEN Returned(NilResult, ValidationError(clusterIdField))
    ELSE ExecuteSimpleRequestStart(a.ctx, "GET",
            Sprintf(nodePoolListURL, << a.clusterID >>),
            Nil, Ptr(nodePoolListQuery(a)), NilResult, ce)

\* List, from the helper's answer: (nil, err) or (resp.Results, nil).
nodePoolListReturn(out) ==
    LET r == ExecuteSimpleRequestWithRespBody(out)
    IN  IF r.err # NoErr THEN Return(NilResult, r.err)
        ELSE Return(SliceResult(PayloadResults(r.result.v[1])), NoErr)

\* Create, up to the request's execution.
nodePoolCreate(a, ce) ==
    IF a.clusterID = Empty THEN Returned(NilResult, ValidationError(clusterIdField))
    ELSE ExecuteSimpleRequestStart(a.ctx, "POST",
            Sprintf(nodePoolCreateURL, << a.clusterID >>),
            <<"CreateNodePoolRequest", a.body>>, Nil, NilResult, ce)

\* Create returns what the helper returns.
nodePoolCreateReturn(out) == ExecuteSimpleRequestWithRespBody(out)

\* Get checking nodePoolID before clusterID.
nodePoolGetPoolFirst(a, ce) ==
    IF a.nodePoolID = Empty THEN Returned(NilResult, ValidationError(nodePoolIdField))
    ELSE IF a.clusterID = Empty THEN Returned(NilResult, ValidationError(clusterIdField))
    ELSE ExecuteSimpleRequestStart(a.ctx, "GET",
            Sprintf(clusterNodepoolURL, << a.clusterID, a.nodePoolID >>),
            Nil, Nil, NilResult, ce)

\* Get, up to the request's execution.
nodePoolGet(a, ce) ==
    IF a.clusterID = Empty THEN Returned(NilResult, ValidationError(clusterIdField))
    ELSE IF a.nodePoolID = Empty THEN Returned(NilResult, ValidationError(nodePoolIdField))
    ELSE ExecuteSimpleRequestStart(a.ctx, "GET",
            Sprintf(clusterNodepoolURL, << a.clusterID, a.nodePoolID >>),
            Nil, Nil, NilResult, ce)

\* Get returns what the helper returns.
nodePoolGetReturn(out) == ExecuteSimpleRequestWithRespBody(out)

\* Update, up to the request's execution.
nodePoolUpdate(a, ce) ==
    IF a.clusterID = Empty THEN Returned(NilResult, ValidationError(clusterIdField))
    ELSE IF a.nodePoolID = Empty THEN Returned(NilResult, ValidationError(nodePoolIdField))
    ELSE ExecuteSimpleRequestStart(a.ctx, "PATCH",
            Sprintf(clusterNodepoolURL, << a.clusterID, a.nodePoolID >>),
            <<"PatchNodePoolRequest", a.body>>, Nil, NilResult, ce)

\* Update returns what the helper returns.
nodePoolUpdateReturn(out) == ExecuteSimpleRequestWithRespBody(out)

\* Delete without the check of nodePoolID.
nodePoolDeleteNoPoolCheck(a, ce) ==
    IF a.clusterID = Empty THEN Returned(NoResult, ValidationError(clusterIdField))
    ELSE ExecuteSimpleRequestStart(a.ctx, "DELETE",
            Sprintf(clusterNodepoolURL, << a.clusterID, a.nodePoolID >>),
            Nil, Nil, NoResult, ce)

\* Delete, up to the request's execution.
nodePoolDelete(a, ce) ==
    IF a.clusterID = Empty THEN Returned(NoResult, ValidationError(clusterIdField))
    ELSE IF a.nodePoolID = Empty THEN Returned(NoResult, ValidationError(nodePoolIdField))
    ELSE ExecuteSimpleRequestStart(a.ctx, "DELETE",
            Sprintf(clusterNodepoolURL, << a.clusterID, a.nodePoolID >>),
            Nil, Nil, NoResult, ce)

\* Delete returns the helper's error.
nodePoolDeleteReturn(out) == ExecuteSimpleRequest(out)

-----------------------------------------------------------------------------
(* compute: snapshotService *)

SnapshotImageExpand == <<"i", "m", "a", "g", "e">>
SnapshotMachineTypeExpand == <<"m", "a", "c", "h", "i", "n", "e", "-", "t", "y", "p", "e">>
snapshotsURL == <<"/", "v", "1", "/", "s", "n", "a", "p", "s", "h", "o", "t", "s">>
snapshotURL == <<"/", "v", "1", "/", "s", "n", "a", "p", "s", "h", "o", "t", "s", "/", "%", "s">>
snapshotRenameURL == <<"/", "v", "1", "/", "s", "n", "a", "p", "s", "h", "o", "t", "s", "/", "%", "s", "/", "r", "e", "n", "a", "m", "e">>
\* The copy path without its sub-path.
snapshotCopyURLNoSuffix == <<"/", "v", "1", "/", "s", "n", "a", "p", "s", "h", "o", "t", "s", "/", "%", "s">>

snapshotCopyURL == <<"/", "v", "1", "/", "s", "n", "a", "p", "s", "h", "o", "t", "s", "/", "%", "s", "/", "c", "o", "p", "y">>
comma == <<",">>

\* The query of List with _limit always added, empty when Limit is nil.
snapshotListQueryAlwaysLimit(a) ==
    LET q1 == Add(NoValues, keyLimit, IF a.limit # Nil THEN Itoa(a.limit[1]) ELSE Empty)
        q2 == IF a.offset # Nil THEN Add(q1, keyOffset, Itoa(a.offset[1])) ELSE q1
        q3 == IF a.sort # Nil THEN Add(q2, keySort, a.sort[1]) ELSE q2
        q4 == IF SliceLen(a.expand) > 0
              THEN Add(q3, keyExpand, Join(SliceElems(a.expand), comma)) ELSE q3
    IN  q4

\* The query List builds from its options (req.URL.Query() of the fresh request is empty).
snapshotListQuery(a) ==
    LET q1 == IF a.limit # Nil THEN Add(NoValues, keyLimit, Itoa(a.limit[1])) ELSE NoValues
        q2 == IF a.offset # Nil THEN Add(q1, keyOffset, Itoa(a.offset[1])) ELSE q1
        q3 == IF a.sort # Nil THEN Add(q2, keySort, a.sort[1]) ELSE q2
        q4 == IF SliceLen(a.expand) > 0
              THEN Add(q3, keyExpand, Join(SliceElems(a.expand), comma)) ELSE q3
    IN  q4

\* List, up to the request's execution.
snapshotList(a, ce) ==
    LET call == NewRequestCall(a.ctx, "GET", snapshotsURL, Nil)
        req == [newRequest(call) EXCEPT !.rawQuery = Encode(snapshotListQuery(a))]
    IN  IF ce # NoErr THEN CtorFailed(call, NilResult, ce)
        ELSE Handed(call, DoCall(a.ctx, req))

\* List, from the helper's answer: (nil, err) or (resp.Snapshots, nil).
snapshotListReturn(out) ==
    IF out.err # NoErr THEN Return(NilResult, out.err)
    ELSE Return(SliceResult(PayloadResults(out.payload)), NoErr)

\* Create going on to execute the request whatever newRequest answered.
snapshotCreateIgnoringCtorErr(a, ce) ==
    LET call == NewRequestCall(a.ctx, "POST", snapshotsURL, <<"CreateSnapshotRequest", a.body>>)
    IN  Handed(call, DoCall(a.ctx, newRequest(call)))

\* Create, up to the request's execution.
snapshotCreate(a, ce) ==
    LET call == NewRequestCall(a.ctx, "POST", snapshotsURL, <<"CreateSnapshotRequest", a.body>>)
    IN  IF ce # NoErr THEN CtorFailed(call, StringResult(Empty), ce)
        ELSE Handed(call, DoCall(a.ctx, newRequest(call)))

\* Create, from the helper's answer: ("", err) or (resp.ID, nil).
snapshotCreateReturn(out) ==
    IF out.err # NoErr THEN Return(StringResult(Empty), out.err)
    ELSE Return(StringResult(PayloadID(out.payload)), NoErr)

\* The query Get sets when the expand list has elements.
snapshotGetQuery(expand) == Add(NoValues, keyExpand, Join(SliceElems(expand), comma))

\* Get adding expand whenever the list is not nil, whatever its length.
snapshotGetExpandNonNil(a, ce) ==
    LET call == NewRequestCall(a.ctx, "GET", Sprintf(snapshotURL, << a.id >>), Nil)
        req == newRequest(call)
        withQuery == IF a.expand # Nil
                     THEN [req EXCEPT !.rawQuery = Encode(snapshotGetQuery(a.expand))]
                     ELSE req
    IN  IF ce # NoErr THEN CtorFailed(call, NilResult, ce)
        ELSE Handed(call, DoCall(a.ctx, withQuery))

\* Get, up to the request's execution.
snapshotGet(a, ce) ==
    LET call == NewRequestCall(a.ctx, "GET", Sprintf(snapshotURL, << a.id >>), Nil)
        req == newRequest(call)
        withQuery == IF SliceLen(a.expand) > 0
                     THEN [req EXCEPT !.rawQuery = Encode(snapshotGetQuery(a.expand))]
                     ELSE req
    IN  IF ce # NoErr THEN CtorFailed(call, NilResult, ce)
        ELSE Handed(call, DoCall(a.ctx, withQuery))

\* Get, from the helper's answer: (nil, err) or (resp, nil).
snapshotGetReturn(out) ==
    IF out.err # NoErr THEN Return(NilResult, out.err)
    ELSE Return(PtrResult(out.payload), NoErr)

\* Delete executing the request under a context of its own.
snapshotDeleteBackgroundCtx(a, ce) ==
    LET call == NewRequestCall(a.ctx, "DELETE", Sprintf(snapshotURL, << a.id >>), Nil)
    IN  IF ce # NoErr THEN CtorFailed(call, NoResult, ce)
        ELSE Handed(call, DoCall("context.Background", newRequest(call)))

\* Delete, up to the request's execution.
snapshotDelete(a, ce) ==
    LET call == NewRequestCall(a.ctx, "DELETE", Sprintf(snapshotURL, << a.id >>), Nil)
    IN  IF ce # NoErr THEN CtorFailed(call, NoResult, ce)
        ELSE Handed(call, DoCall(a.ctx, newRequest(call)))

\* Delete, from the helper's answer: err, or nil.
snapshotDeleteReturn(out) ==
    IF out.err # NoErr THEN Return(NoResult, out.err)
    ELSE Return(NoResult, NoErr)

\* Rename, up to the request's execution.
snapshotRename(a, ce) ==
    LET call == NewRequestCall(a.ctx, "PATCH", Sprintf(snapshotRenameURL, << a.id >>),
                               <<"UpdateNameRequest">> \o a.newName)
    IN  IF ce # NoErr THEN CtorFailed(call, NoResult, ce)
        ELSE Handed(call, DoCall(a.ctx, newRequest(call)))

\* Rename dropping the helper's error.
snapshotRenameReturnSwallow(out) == Return(NoResult, NoErr)

\* Rename, from the helper's answer: err, or nil.
snapshotRenameReturn(out) ==
    IF out.err # NoErr THEN Return(NoResult, out.err)
    ELSE Return(NoResult, NoErr)

\* Restore, up to the request's execution.
snapshotRestore(a, ce) ==
    LET call == NewRequestCall(a.ctx, "POST", Sprintf(snapshotURL, << a.id >>),
                               <<"RestoreSnapshotRequest", a.body>>)
    IN  IF ce # NoErr THEN CtorFailed(call, StringResult(Empty), ce)
        ELSE Handed(call, DoCall(a.ctx, newRequest(call)))

\* Restore wrapping the helper's error in an error of its own.
snapshotRestoreReturnWrapped(out) ==
    IF out.err # NoErr
    THEN Return(StringResult(Empty), [out.err EXCEPT !.kind = "wrapped", !.Message = "restore failed"])
    ELSE Return(StringResult(PayloadID(out.payload)), NoErr)

\* Restore, from the helper's answer: ("", err) or (resp.ID, nil).
snapshotRestoreReturn(out) ==
    IF out.err # NoErr THEN Return(StringResult(Empty), out.err)
    ELSE Return(StringResult(PayloadID(out.payload)), NoErr)

\* Copy, up to the request's execution.
snapshotCopy(a, ce) ==
    LET call == NewRequestCall(a.ctx, "POST", Sprintf(snapshotCopyURL, << a.id >>),
                               <<"CopySnapshotRequest", a.body>>)
    IN  IF ce # NoErr THEN CtorFailed(call, NoResult, ce)
        ELSE Handed(call, DoCall(a.ctx, newRequest(call)))

\* Copy, from the helper's answer: err, or nil.
snapshotCopyReturn(out) ==
    IF out.err # NoErr THEN Return(NoResult, out.err)
    ELSE Return(NoResult, NoErr)

-----------------------------------------------------------------------------
(* lbaas: networkHealthCheckService *)

health_checks == <<"h", "e", "a", "l", "t", "h", "-", "c", "h", "e", "c", "k", "s">>
networkLoadBalancersURL == <<"/", "v", "1", "/", "n", "e", "t", "w", "o", "r", "k", "-", "l", "o", "a", "d", "-", "b", "a", "l", "a", "n", "c", "e", "r", "s">>
slash == <<"/">>

\* urlNetworkLoadBalancer(&lbID, extraPath...): the load balancer's path
\* followed by the extra segments, each after a "/".
urlNetworkLoadBalancer(lbID, extraPath) ==
    networkLoadBalancersURL \o slash \o lbID
    \o Join([i \in 1..Len(extraPath) |-> slash \o extraPath[i]], Empty)

\* helpers.QueryParams.AddReflect and Add: the parameter is added when the
\* pointer is not nil, an integer as its decimal digits.
AddReflect(q, key, value) == IF value = Nil THEN q ELSE Add(q, key, Itoa(value[1]))
AddString(q, key, value) == IF value = Nil THEN q ELSE Add(q, key, value[1])

\* Create, up to the request's execution.
healthCheckCreate(a, ce) ==
    LET path == urlNetworkLoadBalancer(a.lbID, << health_checks >>)
        call == NewRequestCall(a.ctx, "POST", path, <<"CreateNetworkHealthCheckRequest", a.body>>)
    IN  IF ce # NoErr THEN CtorFailed(call, NilResult, ce)
        ELSE Handed(call, DoCall(a.ctx, newRequest(call)))

\* Create, from the helper's answer: (nil, err) or (result, nil).
healthCheckCreateReturn(out) ==
    IF out.err # NoErr THEN Return(NilResult, out.err)
    ELSE Return(PtrResult(out.payload), NoErr)

\* Delete, up to the request's execution.
healthCheckDelete(a, ce) ==
    LET path == urlNetworkLoadBalancer(a.lbID, << health_checks, a.hcID >>)
        call == NewRequestCall(a.ctx, "DELETE", path, Nil)
    IN  IF ce # NoErr THEN CtorFailed(call, NoResult, ce)
        ELSE Handed(call, DoCall(a.ctx, newRequest(call)))

\* Delete returns the helper's error.
healthCheckDeleteReturn(out) == Return(NoResult, out.err)

\* Get, up to the request's execution.
healthCheckGet(a, ce) ==
    LET path == urlNetworkLoadBalancer(a.lbID, << health_checks, a.hcID >>)
        call == NewRequestCall(a.ctx, "GET", path, Nil)
    IN  IF ce # NoErr THEN CtorFailed(call, NilResult, ce)
        ELSE Handed(call, DoCall(a.ctx, newRequest(call)))

\* Get, from the helper's answer: (nil, err) or (result, nil).
healthCheckGetReturn(out) ==
    IF out.err # NoErr THEN Return(NilResult, out.err)
    ELSE Return(PtrResult(out.payload), NoErr)

\* The query List builds from its request.
healthCheckListQuery(a) ==
    AddString(AddReflect(AddReflect(NoValues, keyOffset, a.offset), keyLimit, a.limit),
              keySort, a.sort)

\* List, up to the request's execution.
healthCheckList(a, ce) ==
    LET path == urlNetworkLoadBalancer(a.lbID, << health_checks >>)
        call == NewRequestCall(a.ctx, "GET", path, Nil)
        req == [newRequest(call) EXCEPT !.rawQuery = Encode(healthCheckListQuery(a))]
    IN  IF ce # NoErr THEN CtorFailed(call, NilResult, ce)
        ELSE Handed(call, DoCall(a.ctx, req))

\* List, from the helper's answer: (nil, err) or (result.Results, nil).
healthCheckListReturn(out) ==
    IF out.err # NoErr THEN Return(NilResult, out.err)
    ELSE Return(SliceResult(PayloadResults(out.payload)), NoErr)

\* Update as a partial patch.
healthCheckUpdatePatch(a, ce) ==
    LET path == urlNetworkLoadBalancer(a.lbID, << health_checks, a.hcID >>)
        call == NewRequestCall(a.ctx, "PATCH", path, <<"UpdateNetworkHealthCheckRequest", a.body>>)
    IN  IF ce # NoErr THEN CtorFailed(call, NoResult, ce)
        ELSE Handed(call, DoCall(a.ctx, newRequest(call)))

\* Update, up to the request's execution.
healthCheckUpdate(a, ce) ==
    LET path == urlNetworkLoadBalancer(a.lbID, << health_checks, a.hcID >>)
        call == NewRequestCall(a.ctx, "PUT", path, <<"UpdateNetworkHealthCheckRequest", a.body>>)
    IN  IF ce # NoErr THEN CtorFailed(call, NoResult, ce)
        ELSE Handed(call, DoCall(a.ctx, newRequest(call)))

\* Update returns the helper's error.
healthCheckUpdateReturn(out) == Return(NoResult, out.err)

-----------------------------------------------------------------------------
(* containerregistry: credentialsService *)

credentialsURL == <<"/", "v", "0", "/", "c", "r", "e", "d", "e", "n", "t", "i", "a", "l", "s">>
credentialsPasswordURL == <<"/", "v", "0", "/", "c", "r", "e", "d", "e", "n", "t", "i", "a", "l", "s", "/", "p", "a", "s", "s", "w", "o", "r", "d">>

\* Get, up to the request's execution.
credentialsGet(a, ce) ==
    ExecuteSimpleRequestStart(a.ctx, "GET", credentialsURL, Nil, Nil, NilResult, ce)

\* Get, from the helper's answer: (nil, err) or (res, nil).
credentialsGetReturn(out) ==
    LET r == ExecuteSimpleRequestWithRespBody(out)
    IN  IF r.err # NoErr THEN Return(NilResult, r.err) ELSE Return(r.result, NoErr)

\* ResetPassword reading the credentials instead of resetting them.
credentialsResetPasswordAsGet(a, ce) ==
    ExecuteSimpleRequestStart(a.ctx, "GET", credentialsURL, Nil, Nil, NilResult, ce)

\* ResetPassword, up to the request's execution.
credentialsResetPassword(a, ce) ==
    ExecuteSimpleRequestStart(a.ctx, "POST", credentialsPasswordURL, Nil, Nil, NilResult, ce)

\* ResetPassword, from the helper's answer: (nil, err) or (res, nil).
credentialsResetPasswordReturn(out) ==
    LET r == ExecuteSimpleRequestWithRespBody(out)
    IN  IF r.err # NoErr THEN Return(NilResult, r.err) ELSE Return(r.result, NoErr)

-----------------------------------------------------------------------------
(* The callers' inputs *)

Contexts == {"ctxA", "ctxB"}
ClusterIDs == {Empty, <<"c", "l", "-", "1">>, <<"k">>}
NodePoolIDs == {Empty, <<"n", "p", "-", "1">>}
SnapshotIDs == {Empty, <<"s", "n", "a", "p", "-", "1">>, <<"a">>, <<"a", "/", "c", "o", "p", "y">>}
LoadBalancerIDs == {Empty, <<"l", "b", "1">>}
HealthCheckIDs == {Empty, <<"h", "c", "1">>}
LimitOptions == {Nil, Ptr(0 - MaxInt), Ptr(0), Ptr(10), Ptr(MaxInt)}
OffsetOptions == {Nil, Ptr(0), Ptr(MaxInt - 1)}
SortOptions == {Nil, Ptr(Empty), Ptr(<<"n", "a", "m", "e", ":", "a", "s", "c">>)}
ExpandOptions ==
    {Nil, Ptr(<< >>), Ptr(<< SnapshotImageExpand >>),
     Ptr(<< SnapshotImageExpand, SnapshotMachineTypeExpand >>),
     Ptr(<< SnapshotMachineTypeExpand, SnapshotImageExpand >>)}
Bodies == {"b1"}

\* The Create request records. A scalar is the text json.Marshal writes for
\* it; a pointer field is Nil or Ptr of that text.
AutoScales == [MinReplicas : {Nil, Ptr("0")}, MaxReplicas : {Nil, Ptr("5")}]

CreateNodePoolRequests ==
    [Name : {"np"}, Flavor : {"small"}, Replicas : {"0", "3"},
     Tags : {Nil, Ptr("[]")},
     Taints : {Nil, Ptr("[]")},
     AutoScale : {Nil} \cup { Ptr(s) : s \in AutoScales },
     MaxPodsPerNode : {Nil, Ptr("0")},
     AvailabilityZones : {Nil, Ptr("[a]")}]

CreateSnapshotRequests == [Name : {"", "snap"}, Instance : {"{}", "{id}"}]

CreateNetworkHealthCheckRequests(lbID) ==
    [LoadBalancerID : {lbID}, Name : {"hc"}, Protocol : {"tcp"}, Port : {"80"},
     Description : {Nil, Ptr("")},
     Path : {Nil, Ptr("/")},
     HealthyStatusCode : {Nil, Ptr("200")},
     IntervalSeconds : {Nil, Ptr("0")},
     TimeoutSeconds : {Nil, Ptr("0")},
     InitialDelaySeconds : {Nil, Ptr("0")},
     HealthyThresholdCount : {Nil, Ptr("0")},
     UnhealthyThresholdCount : {Nil, Ptr("0")}]

\* One record of each, every optional field unset.
PlainCreateNodePoolRequests ==
    { r \in CreateNodePoolRequests :
        /\ r.Replicas = "3" /\ r.Tags = Nil /\ r.Taints = Nil /\ r.AutoScale = Nil
        /\ r.MaxPodsPerNode = Nil /\ r.AvailabilityZones = Nil }

PlainCreateSnapshotRequests ==
    { r \in CreateSnapshotRequests : r.Name = "snap" /\ r.Instance = "{id}" }

PlainCreateNetworkHealthCheckRequests(lbID) ==
    { r \in CreateNetworkHealthCheckRequests(lbID) :
        /\ r.Description = Nil /\ r.Path = Nil /\ r.HealthyStatusCode = Nil
        /\ r.IntervalSeconds = Nil /\ r.TimeoutSeconds = Nil
        /\ r.InitialDelaySeconds = Nil /\ r.HealthyThresholdCount = Nil
        /\ r.UnhealthyThresholdCount = Nil }
Names == {<<"n", "e", "w">>}

-----------------------------------------------------------------------------
(* The invocations *)

NoPrev == [op |-> "", id |-> Empty, method |-> "", path |-> Empty]

NoLast == [args |-> NoArgs, sent |-> << >>]

\* Two goroutines calling the methods of one service object.
Callers == {1, 2}

\* The locals of an invocation that has not started.
IdleCall ==
    [pc |-> "idle", op |-> "", args |-> NoArgs, ctorCalls |-> << >>, ctorErr |-> NoErr,
     sent |-> << >>, doErr |-> NoErr, result |-> NilResult, err |-> NoErr,
     config |-> ""]

\* The service objects two callers share, and the client each is
\* constructed with, holding its configuration.
Services == {"Snapshot", "NodePool"}
NewClient == [config |-> "config"]

Init ==
    /\ pc = "idle"
    /\ op = ""
    /\ args = NoArgs
    /\ ctorCalls = << >>
    /\ ctorErr = NoErr
    /\ sent = << >>
    /\ doErr = NoErr
    /\ result = NilResult
    /\ err = NoErr
    /\ prev = NoPrev
    /\ last = NoLast
    /\ calls = [c \in Callers |-> IdleCall]
    /\ client = [s \in Services |-> NewClient]

\* A caller invokes operation name with arguments a; plan is what the
\* method does up to its return or to the request's execution, ce what the
\* request constructor answers when it is called.
Invoke(name, a, plan, ce) ==
    /\ op' = name
    /\ args' = a
    /\ ctorCalls' = plan.ctor
    /\ ctorErr' = IF Len(plan.ctor) > 0 THEN ce ELSE NoErr
    /\ sent' = plan.sent
    /\ doErr' = NoErr
    /\ IF Len(plan.sent) > 0
       THEN pc' = "inflight" /\ result' = NilResult /\ err' = NoErr
       ELSE pc' = "returned" /\ result' = plan.result /\ err' = plan.err
    /\ UNCHANGED <<prev, last, calls, client>>

NodePoolNodes ==
    \E x0 \in Contexts, x1 \in ClusterIDs, x2 \in NodePoolIDs, ce \in CtorOutcomes :
        LET a == [NoArgs EXCEPT !.ctx = x0, !.clusterID = x1, !.nodePoolID = x2]
        IN  /\ pc = "idle"
            /\ Invoke("NodePool.Nodes", a, nodePoolNodes(a, ce), ce)

NodePoolList ==
    \E x0 \in Contexts, x1 \in ClusterIDs, x2 \in LimitOptions, x3 \in OffsetOptions, x4 \in SortOptions, x5 \in ExpandOptions, ce \in CtorOutcomes :
        LET a == [NoArgs EXCEPT !.ctx = x0, !.clusterID = x1, !.limit = x2, !.offset = x3, !.sort = x4, !.expand = x5]
        IN  /\ pc = "idle"
            /\ Invoke("NodePool.List", a, nodePoolList(a, ce), ce)

NodePoolCreate ==
    \E x0 \in Contexts, x1 \in ClusterIDs, x2 \in PlainCreateNodePoolRequests, ce \in CtorOutcomes :
        LET a == [NoArgs EXCEPT !.ctx = x0, !.clusterID = x1, !.body = x2]
        IN  /\ pc = "idle"
            /\ Invoke("NodePool.Create", a, nodePoolCreate(a, ce), ce)

NodePoolGet ==
    \E x0 \in Contexts, x1 \in ClusterIDs, x2 \in NodePoolIDs, ce \in CtorOutcomes :
        LET a == [NoArgs EXCEPT !.ctx = x0, !.clusterID = x1, !.nodePoolID = x2]
        IN  /\ pc = "idle"
            /\ Invoke("NodePool.Get", a, nodePoolGet(a, ce), ce)

NodePoolUpdate ==
    \E x0 \in Contexts, x1 \in ClusterIDs, x2 \in NodePoolIDs, x3 \in Bodies, ce \in CtorOutcomes :
        LET a == [NoArgs EXCEPT !.ctx = x0, !.clusterID = x1, !.nodePoolID = x2, !.body = x3]
        IN  /\ pc = "idle"
            /\ Invoke("NodePool.Update", a, nodePoolUpdate(a, ce), ce)

NodePoolDelete ==
    \E x0 \in Contexts, x1 \in ClusterIDs, x2 \in NodePoolIDs, ce \in CtorOutcomes :
        LET a == [NoArgs EXCEPT !.ctx = x0, !.clusterID = x1, !.nodePoolID = x2]
        IN  /\ pc = "idle"
            /\ Invoke("NodePool.Delete", a, nodePoolDelete(a, ce), ce)

SnapshotList ==
    \E x0 \in Contexts, x1 \in LimitOptions, x2 \in OffsetOptions, x3 \in SortOptions, x4 \in ExpandOptions, ce \in CtorOutcomes :
        LET a == [NoArgs EXCEPT !.ctx = x0, !.limit = x1, !.offset = x2, !.sort = x3, !.expand = x4]
        IN  /\ pc = "idle"
            /\ Invoke("Snapshot.List", a, snapshotList(a, ce), ce)

SnapshotCreate ==
    \E x0 \in Contexts, x1 \in PlainCreateSnapshotRequests, ce \in CtorOutcomes :
        LET a == [NoArgs EXCEPT !.ctx = x0, !.body = x1]
        IN  /\ pc = "idle"
            /\ Invoke("Snapshot.Create", a, snapshotCreate(a, ce), ce)

SnapshotGet ==
    \E x0 \in Contexts, x1 \in SnapshotIDs, x2 \in ExpandOptions, ce \in CtorOutcomes :
        LET a == [NoArgs EXCEPT !.ctx = x0, !.id = x1, !.expand = x2]
        IN  /\ pc = "idle"
            /\ Invoke("Snapshot.Get", a, snapshotGet(a, ce), ce)

SnapshotDelete ==
    \E x0 \in Contexts, x1 \in SnapshotIDs, ce \in CtorOutcomes :
        LET a == [NoArgs EXCEPT !.ctx = x0, !.id = x1]
        IN  /\ pc = "idle"
            /\ Invoke("Snapshot.Delete", a, snapshotDelete(a, ce), ce)

SnapshotRename ==
    \E x0 \in Contexts, x1 \in SnapshotIDs, x2 \in Names, ce \in CtorOutcomes :
        LET a == [NoArgs EXCEPT !.ctx = x0, !.id = x1, !.newName = x2]
        IN  /\ pc = "idle"
            /\ Invoke("Snapshot.Rename", a, snapshotRename(a, ce), ce)

SnapshotRestore ==
    \E x0 \in Contexts, x1 \in SnapshotIDs, x2 \in Bodies, ce \in CtorOutcomes :
        LET a == [NoArgs EXCEPT !.ctx = x0, !.id = x1, !.body = x2]
        IN  /\ pc = "idle"
            /\ Invoke("Snapshot.Restore", a, snapshotRestore(a, ce), ce)

SnapshotCopy ==
    \E x0 \in Contexts, x1 \in SnapshotIDs, x2 \in Bodies, ce \in CtorOutcomes :
        LET a == [NoArgs EXCEPT !.ctx = x0, !.id = x1, !.body = x2]
        IN  /\ pc = "idle"
            /\ Invoke("Snapshot.Copy", a, snapshotCopy(a, ce), ce)

HealthCheckCreate ==
    \E x0 \in Contexts, x1 \in LoadBalancerIDs, ce \in CtorOutcomes :
      \E x2 \in PlainCreateNetworkHealthCheckRequests(x1) :
        LET a == [NoArgs EXCEPT !.ctx = x0, !.lbID = x2.LoadBalancerID, !.body = x2]
        IN  /\ pc = "idle"
            /\ Invoke("HealthCheck.Create", a, healthCheckCreate(a, ce), ce)

HealthCheckDelete ==
    \E x0 \in Contexts, x1 \in LoadBalancerIDs, x2 \in HealthCheckIDs, ce \in CtorOutcomes :
        LET a == [NoArgs EXCEPT !.ctx = x0, !.lbID = x1, !.hcID = x2]
        IN  /\ pc = "idle"
            /\ Invoke("HealthCheck.Delete", a, healthCheckDelete(a, ce), ce)

HealthCheckGet ==
    \E x0 \in Contexts, x1 \in LoadBalancerIDs, x2 \in HealthCheckIDs, ce \in CtorOutcomes :
        LET a == [NoArgs EXCEPT !.ctx = x0, !.lbID = x1, !.hcID = x2]
        IN  /\ pc = "idle"
            /\ Invoke("HealthCheck.Get", a, healthCheckGet(a, ce), ce)

HealthCheckList ==
    \E x0 \in Contexts, x1 \in LoadBalancerIDs, x2 \in LimitOptions, x3 \in OffsetOptions, x4 \in SortOptions, ce \in CtorOutcomes :
        LET a == [NoArgs EXCEPT !.ctx = x0, !.lbID = x1, !.limit = x2, !.offset = x3, !.sort = x4]
        IN  /\ pc = "idle"
            /\ Invoke("HealthCheck.List", a, healthCheckList(a, ce), ce)

HealthCheckUpdate ==
    \E x0 \in Contexts, x1 \in LoadBalancerIDs, x2 \in HealthCheckIDs, x3 \in Bodies, ce \in CtorOutcomes :
        LET a == [NoArgs EXCEPT !.ctx = x0, !.lbID = x1, !.hcID = x2, !.body = x3]
        IN  /\ pc = "idle"
            /\ Invoke("HealthCheck.Update", a, healthCheckUpdate(a, ce), ce)

CredentialsGet ==
    \E x0 \in Contexts, ce \in CtorOutcomes :
        LET a == [NoArgs EXCEPT !.ctx = x0]
        IN  /\ pc = "idle"
            /\ Invoke("Credentials.Get", a, credentialsGet(a, ce), ce)

CredentialsResetPassword ==
    \E x0 \in Contexts, ce \in CtorOutcomes :
        LET a == [NoArgs EXCEPT !.ctx = x0]
        IN  /\ pc = "idle"
            /\ Invoke("Credentials.ResetPassword", a, credentialsResetPassword(a, ce), ce)

\* What the operation returns once the execute helper has answered out.
ReturnOf(o, out) ==
    CASE o = "NodePool.Nodes" -> nodePoolNodesReturn(out)
      [] o = "NodePool.List" -> nodePoolListReturn(out)
      [] o = "NodePool.Create" -> nodePoolCreateReturn(out)
      [] o = "NodePool.Get" -> nodePoolGetReturn(out)
      [] o = "NodePool.Update" -> nodePoolUpdateReturn(out)
      [] o = "NodePool.Delete" -> nodePoolDeleteReturn(out)
      [] o = "Snapshot.List" -> snapshotListReturn(out)
      [] o = "Snapshot.Create" -> snapshotCreateReturn(out)
      [] o = "Snapshot.Get" -> snapshotGetReturn(out)
      [] o = "Snapshot.Delete" -> snapshotDeleteReturn(out)
      [] o = "Snapshot.Rename" -> snapshotRenameReturn(out)
      [] o = "Snapshot.Restore" -> snapshotRestoreReturn(out)
      [] o = "Snapshot.Copy" -> snapshotCopyReturn(out)
      [] o = "HealthCheck.Create" -> healthCheckCreateReturn(out)
      [] o = "HealthCheck.Delete" -> healthCheckDeleteReturn(out)
      [] o = "HealthCheck.Get" -> healthCheckGetReturn(out)
      [] o = "HealthCheck.List" -> healthCheckListReturn(out)
      [] o = "HealthCheck.Update" -> healthCheckUpdateReturn(out)
      [] o = "Credentials.Get" -> credentialsGetReturn(out)
      [] o = "Credentials.ResetPassword" -> credentialsResetPasswordReturn(out)

\* The execute helper answers and the method returns.
Deliver ==
    /\ pc = "inflight"
    /\ \E out \in DoOutcomes :
        /\ doErr' = out.err
        /\ result' = ReturnOf(op, out).result
        /\ err' = ReturnOf(op, out).err
    /\ pc' = "returned"
    /\ UNCHANGED <<op, args, ctorCalls, ctorErr, sent, prev, last, calls, client>>

SnapshotOps ==
    {"Snapshot.List", "Snapshot.Create", "Snapshot.Get", "Snapshot.Delete",
     "Snapshot.Rename", "Snapshot.Restore", "Snapshot.Copy"}

\* The route of the request the invocation handed to the execute helper.
RouteOf(o, a, do) == [op |-> o, id |-> a.id, method |-> do.req.method, path |-> do.req.path]

Forget ==
    /\ pc' = "idle"
    /\ op' = ""
    /\ args' = NoArgs
    /\ ctorCalls' = << >>
    /\ ctorErr' = NoErr
    /\ sent' = << >>
    /\ doErr' = NoErr
    /\ result' = NilResult
    /\ err' = NoErr

\* The caller has its answer; the invocation's records are dropped.
Finish ==
    /\ pc = "returned"
    /\ Forget
    /\ UNCHANGED <<prev, last, calls, client>>

\* As Finish, keeping the route of the request when one was issued.
FinishRemember ==
    /\ pc = "returned"
    /\ Forget
    /\ prev' = IF Len(sent) > 0 THEN RouteOf(op, args, sent[1]) ELSE prev
    /\ UNCHANGED <<last, calls, client>>

\* As Finish, keeping the arguments and the request of a NodePool.List
\* invocation that issued one.
FinishRememberList ==
    /\ pc = "returned"
    /\ Forget
    /\ last' = IF op = "NodePool.List" /\ Len(sent) > 0
               THEN [args |-> args, sent |-> sent] ELSE last
    /\ UNCHANGED <<prev, calls, client>>

Next ==
    \/ NodePoolNodes
    \/ NodePoolList
    \/ NodePoolCreate
    \/ NodePoolGet
    \/ NodePoolUpdate
    \/ NodePoolDelete
    \/ SnapshotList
    \/ SnapshotCreate
    \/ SnapshotGet
    \/ SnapshotDelete
    \/ SnapshotRename
    \/ SnapshotRestore
    \/ SnapshotCopy
    \/ HealthCheckCreate
    \/ HealthCheckDelete
    \/ HealthCheckGet
    \/ HealthCheckList
    \/ HealthCheckUpdate
    \/ CredentialsGet
    \/ CredentialsResetPassword
    \/ Deliver
    \/ Finish

Spec == Init /\ [][Next]_vars

\* The snapshot service alone, the route of the previous request kept.
NextRoutes ==
    \/ SnapshotList
    \/ SnapshotCreate
    \/ SnapshotGet
    \/ SnapshotDelete
    \/ SnapshotRename
    \/ SnapshotRestore
    \/ SnapshotCopy
    \/ Deliver
    \/ FinishRemember

SpecRoutes == Init /\ [][NextRoutes]_vars

\* The Create operations over every Create request record.
NodePoolCreateRecord ==
    \E x0 \in Contexts, x1 \in {<<"c", "l", "-", "1">>}, x2 \in CreateNodePoolRequests, ce \in CtorOutcomes :
        LET a == [NoArgs EXCEPT !.ctx = x0, !.clusterID = x1, !.body = x2]
        IN  /\ pc = "idle"
            /\ Invoke("NodePool.Create", a, nodePoolCreate(a, ce), ce)

SnapshotCreateRecord ==
    \E x0 \in Contexts, x1 \in CreateSnapshotRequests, ce \in CtorOutcomes :
        LET a == [NoArgs EXCEPT !.ctx = x0, !.body = x1]
        IN  /\ pc = "idle"
            /\ Invoke("Snapshot.Create", a, snapshotCreate(a, ce), ce)

HealthCheckCreateRecord ==
    \E x0 \in Contexts, x1 \in {<<"l", "b", "1">>}, ce \in CtorOutcomes :
      \E x2 \in CreateNetworkHealthCheckRequests(x1) :
        LET a == [NoArgs EXCEPT !.ctx = x0, !.lbID = x2.LoadBalancerID, !.body = x2]
        IN  /\ pc = "idle"
            /\ Invoke("HealthCheck.Create", a, healthCheckCreate(a, ce), ce)

NextBodies ==
    \/ NodePoolCreateRecord
    \/ SnapshotCreateRecord
    \/ HealthCheckCreateRecord
    \/ Deliver
    \/ Finish

SpecBodies == Init /\ [][NextBodies]_vars

\* List of the NodePoolService over a few options of each kind.
NodePoolListOptions ==
    \E x0 \in Contexts, x1 \in {<<"c", "l", "-", "1">>, <<"k">>}, x2 \in {Nil, Ptr(10)},
       x3 \in {Nil, Ptr(0)}, x4 \in {Nil, Ptr(<<"n", "a", "m", "e", ":", "a", "s", "c">>)},
       x5 \in {Nil, Ptr(<< SnapshotImageExpand >>),
               Ptr(<< SnapshotImageExpand, SnapshotMachineTypeExpand >>)},
       ce \in CtorOutcomes :
        LET a == [NoArgs EXCEPT !.ctx = x0, !.clusterID = x1, !.limit = x2,
                                !.offset = x3, !.sort = x4, !.expand = x5]
        IN  /\ pc = "idle"
            /\ Invoke("NodePool.List", a, nodePoolList(a, ce), ce)

NextLists ==
    \/ NodePoolListOptions
    \/ Deliver
    \/ FinishRememberList

SpecLists == Init /\ [][NextLists]_vars

\* Two callers on the same service objects.
ConcOps == SnapshotOps \cup
    {"NodePool.Nodes", "NodePool.List", "NodePool.Create", "NodePool.Get",
     "NodePool.Update", "NodePool.Delete"}

ServiceOf(o) == IF o \in SnapshotOps THEN "Snapshot" ELSE "NodePool"

\* The arguments a caller gives an operation.
ConcArgs(o, ctx) ==
    LET base == [NoArgs EXCEPT !.ctx = ctx]
        ids == {<<"s", "n", "a", "p", "-", "1">>, <<"a">>}
        clusters == {Empty, <<"c", "l", "-", "1">>}
        limits == {Nil, Ptr(10)}
        expands == {Nil, Ptr(<< SnapshotImageExpand >>)}
    IN  CASE o = "Snapshot.List" ->
                { [base EXCEPT !.limit = l, !.expand = e] : l \in limits, e \in expands }
          [] o = "Snapshot.Create" ->
                { [base EXCEPT !.body = r] : r \in PlainCreateSnapshotRequests }
          [] o = "Snapshot.Get" ->
                { [base EXCEPT !.id = i, !.expand = e] : i \in ids, e \in expands }
          [] o = "Snapshot.Delete" -> { [base EXCEPT !.id = i] : i \in ids }
          [] o = "Snapshot.Rename" ->
                { [base EXCEPT !.id = i, !.newName = n] : i \in ids, n \in Names }
          [] o \in {"Snapshot.Restore", "Snapshot.Copy"} ->
                { [base EXCEPT !.id = i, !.body = b] : i \in ids, b \in Bodies }
          [] o = "NodePool.List" ->
                { [base EXCEPT !.clusterID = k, !.limit = l] : k \in clusters, l \in limits }
          [] o = "NodePool.Create" ->
                { [base EXCEPT !.clusterID = k, !.body = r] :
                    k \in clusters, r \in PlainCreateNodePoolRequests }
          [] o = "NodePool.Update" ->
                { [base EXCEPT !.clusterID = k, !.nodePoolID = <<"n", "p", "-", "1">>, !.body = b] :
                    k \in clusters, b \in Bodies }
          [] o \in {"NodePool.Nodes", "NodePool.Get", "NodePool.Delete"} ->
                { [base EXCEPT !.clusterID = k, !.nodePoolID = <<"n", "p", "-", "1">>] : k \in clusters }

\* The method of an operation, up to its return or to the execute helper.
PlanOf(o, a, ce) ==
    CASE o = "NodePool.Nodes" -> nodePoolNodes(a, ce)
      [] o = "NodePool.List" -> nodePoolList(a, ce)
      [] o = "NodePool.Create" -> nodePoolCreate(a, ce)
      [] o = "NodePool.Get" -> nodePoolGet(a, ce)
      [] o = "NodePool.Update" -> nodePoolUpdate(a, ce)
      [] o = "NodePool.Delete" -> nodePoolDelete(a, ce)
      [] o = "Snapshot.List" -> snapshotList(a, ce)
      [] o = "Snapshot.Create" -> snapshotCreate(a, ce)
      [] o = "Snapshot.Get" -> snapshotGet(a, ce)
      [] o = "Snapshot.Delete" -> snapshotDelete(a, ce)
      [] o = "Snapshot.Rename" -> snapshotRename(a, ce)
      [] o = "Snapshot.Restore" -> snapshotRestore(a, ce)
      [] o = "Snapshot.Copy" -> snapshotCopy(a, ce)

\* A method that records the operation in the configuration of its client.
ClientAfterRecordingOp(cl, o, a) == [cl EXCEPT !.config = o]

\* The client of a service after one of its methods ran: the methods read
\* s.client (newRequest, GetConfig) and assign nothing of it.
ClientAfter(cl, o, a) == cl

\* A caller calls a method with a context of its own: it runs on the
\* caller's own locals, reads the client's configuration, and reaches its
\* return or the execute helper.
CallerInvoke(c) ==
    /\ calls[c].pc = "idle"
    /\ \E o \in ConcOps, ce \in CtorOutcomes :
         \E a \in ConcArgs(o, IF c = 1 THEN "ctxA" ELSE "ctxB") :
           LET plan == PlanOf(o, a, ce)
               handed == Len(plan.sent) > 0
           IN  /\ calls' = [calls EXCEPT ![c] =
                     [pc |-> IF handed THEN "inflight" ELSE "returned",
                      op |-> o, args |-> a, ctorCalls |-> plan.ctor,
                      ctorErr |-> IF Len(plan.ctor) > 0 THEN ce ELSE NoErr,
                      sent |-> plan.sent, doErr |-> NoErr,
                      result |-> IF handed THEN NilResult ELSE plan.result,
                      err |-> IF handed THEN NoErr ELSE plan.err,
                      config |-> client[ServiceOf(o)].config]]
               /\ client' = [client EXCEPT ![ServiceOf(o)] = ClientAfter(@, o, a)]
    /\ UNCHANGED <<pc, op, args, ctorCalls, ctorErr, sent, doErr, result, err, prev, last>>

\* The execute helper answers a caller's request and its method returns.
CallerDeliver(c) ==
    /\ calls[c].pc = "inflight"
    /\ \E out \in DoOutcomes :
         calls' = [calls EXCEPT ![c].pc = "returned", ![c].doErr = out.err,
                                ![c].result = ReturnOf(calls[c].op, out).result,
                                ![c].err = ReturnOf(calls[c].op, out).err]
    /\ UNCHANGED <<pc, op, args, ctorCalls, ctorErr, sent, doErr, result, err, prev, last,
                   client>>

\* A caller has its answer; its locals are dropped.
CallerFinish(c) ==
    /\ calls[c].pc = "returned"
    /\ calls' = [calls EXCEPT ![c] = IdleCall]
    /\ UNCHANGED <<pc, op, args, ctorCalls, ctorErr, sent, doErr, result, err, prev, last,
                   client>>

NextConc ==
    \/ \E c \in Callers : CallerInvoke(c)
    \/ \E c \in Callers : CallerDeliver(c)
    \/ \E c \in Callers : CallerFinish(c)

SpecConc == Init /\ [][NextConc]_vars

-----------------------------------------------------------------------------
(* Reading a request back: what a server sees in the URL *)

Range(s) == {s[i] : i \in 1..Len(s)}

\* The pieces of s between the occurrences of the character c.
RECURSIVE SplitOn(_, _)
SplitOn(s, c) ==
    IF c \notin Range(s) THEN << s >>
    ELSE LET i == CHOOSE k \in 1..Len(s) : s[k] = c /\ \A j \in 1..(k - 1) : s[j] # c
         IN  << SubSeq(s, 1, i - 1) >> \o SplitOn(SubSeq(s, i + 1, Len(s)), c)

\* The character a percent-encoded pair of hexadecimal digits stands for.
CharOfHex(h) ==
    CASE h = <<"2", "C">> -> ","
      [] h = <<"2", "F">> -> "/"
      [] h = <<"3", "A">> -> ":"
      [] h = <<"3", "D">> -> "="
      [] h = <<"2", "6">> -> "&"
      [] h = <<"2", "5">> -> "%"
      [] h = <<"2", "B">> -> "+"
      [] h = <<"3", "F">> -> "?"
      [] OTHER -> "?"

\* The text a query component decodes to: %XY is one character, "+" a space.
RECURSIVE QueryUnescape(_)
QueryUnescape(s) ==
    IF Len(s) = 0 THEN << >>
    ELSE IF s[1] = "%" /\ Len(s) >= 3
         THEN << CharOfHex(SubSeq(s, 2, 3)) >> \o QueryUnescape(SubSeq(s, 4, Len(s)))
    ELSE IF s[1] = "+" THEN <<" ">> \o QueryUnescape(Tail(s))
    ELSE << s[1] >> \o QueryUnescape(Tail(s))

\* The key=value parameters of a raw query, as written in the URL.
RawParams(raw) ==
    IF raw = << >> THEN << >>
    ELSE LET parts == SplitOn(raw, "&")
         IN  [i \in 1..Len(parts) |-> SplitOn(parts[i], "=")]

\* The values, as written in the URL, of the parameters named key.
RawValues(raw, key) ==
    LET ps == SelectSeq(RawParams(raw), LAMBDA kv : QueryUnescape(kv[1]) = key)
    IN  [i \in 1..Len(ps) |-> IF Len(ps[i]) >= 2 THEN ps[i][2] ELSE << >>]

\* The parameter key occurs exactly once in the raw query / does not occur.
SentOnce(raw, key) == Len(RawValues(raw, key)) = 1
NotSent(raw, key) == Len(RawValues(raw, key)) = 0

\* The decoded value of a parameter that occurs once.
Decoded(raw, key) == QueryUnescape(RawValues(raw, key)[1])

DigitValue(c) == CHOOSE d \in 0..9 : Digits[d + 1] = c

RECURSIVE NaturalOf(_)
NaturalOf(s) ==
    IF Len(s) = 0 THEN 0
    ELSE 10 * NaturalOf(SubSeq(s, 1, Len(s) - 1)) + DigitValue(s[Len(s)])

\* s is the decimal numeral of a natural number: digits only, no leading zero.
IsNumeral(s) ==
    /\ Len(s) >= 1
    /\ \A i \in 1..Len(s) : \E d \in 0..9 : Digits[d + 1] = s[i]
    /\ (Len(s) > 1 => s[1] # "0")

\* s is the decimal string of the integer n.
IsDecimalOf(s, n) ==
    IF n < 0
    THEN Len(s) >= 2 /\ s[1] = "-" /\ IsNumeral(Tail(s)) /\ NaturalOf(Tail(s)) = 0 - n
    ELSE IsNumeral(s) /\ NaturalOf(s) = n

\* The request the current invocation handed to the execute helper.
Req == sent[1].req

NodePoolOps ==
    {"NodePool.Nodes", "NodePool.List", "NodePool.Create", "NodePool.Get",
     "NodePool.Update", "NodePool.Delete"}
NodePoolItemOps == {"NodePool.Nodes", "NodePool.Get", "NodePool.Update", "NodePool.Delete"}
HealthCheckOps ==
    {"HealthCheck.Create", "HealthCheck.Get", "HealthCheck.Update",
     "HealthCheck.Delete", "HealthCheck.List"}
HealthCheckItemOps == {"HealthCheck.Get", "HealthCheck.Update", "HealthCheck.Delete"}
SnapshotItemOps ==
    {"Snapshot.Get", "Snapshot.Delete", "Snapshot.Rename", "Snapshot.Restore",
     "Snapshot.Copy"}
ListOps == {"NodePool.List", "Snapshot.List", "HealthCheck.List"}

-----------------------------------------------------------------------------
(* C1 *)

\* No constructor call and no request in this invocation.
NoNetworkCall == ctorCalls = << >> /\ sent = << >>

\* C1: a NodePoolService operation called with an empty clusterID, and
\* Nodes/Get/Update/Delete called with a clusterID and an empty nodePoolID,
\* never reaches the request constructor or the execute helper, and returns
\* a validation error whose Field is "clusterID", respectively "nodePoolID".
C1_NodePoolValidation ==
    /\ (op \in NodePoolOps /\ args.clusterID = Empty) =>
          /\ pc = "returned"
          /\ NoNetworkCall
          /\ err.kind = "ValidationError" /\ err.Field = "clusterID"
    /\ (op \in NodePoolItemOps /\ args.clusterID # Empty /\ args.nodePoolID = Empty) =>
          /\ pc = "returned"
          /\ NoNetworkCall
          /\ err.kind = "ValidationError" /\ err.Field = "nodePoolID"

C1_Witness ==
    /\ pc = "returned" /\ op = "NodePool.Update"
    /\ args.clusterID # Empty /\ args.nodePoolID = Empty
    /\ err.Field = "nodePoolID" /\ NoNetworkCall

-----------------------------------------------------------------------------
(* C2 *)

\* C2: a NetworkHealthCheckService operation called with an empty
\* LoadBalancerID, and Get/Update/Delete called with an empty HealthCheckID,
\* issues no request and returns a validation error.
C2_HealthCheckValidation ==
    (/\ op \in HealthCheckOps
     /\ \/ args.lbID = Empty
        \/ op \in HealthCheckItemOps /\ args.hcID = Empty) =>
        /\ pc = "returned"
        /\ NoNetworkCall
        /\ err.kind = "ValidationError"

-----------------------------------------------------------------------------
(* C3 *)

\* C3: every request sent for Get, Delete, Rename, Restore or Copy of the
\* SnapshotService is for a non-empty snapshot id.
C3_SnapshotIdNotEmpty ==
    (op \in SnapshotItemOps /\ Len(sent) > 0) => args.id # Empty

-----------------------------------------------------------------------------
(* C4 *)

\* An integer option is in the raw query exactly when it is set, as its decimal string.
IntOptionSent(raw, key, option) ==
    IF option = Nil THEN NotSent(raw, key)
    ELSE SentOnce(raw, key) /\ IsDecimalOf(RawValues(raw, key)[1], option[1])

\* A string option is in the raw query exactly when it is set, and decodes to the caller's text.
StringOptionSent(raw, key, option) ==
    IF option = Nil THEN NotSent(raw, key)
    ELSE SentOnce(raw, key) /\ Decoded(raw, key) = option[1]

\* C4: the request of NodePoolService.List, SnapshotService.List and
\* NetworkHealthCheckService.List carries _limit, _offset and _sort exactly
\* when Limit, Offset and Sort are not nil, the integers as decimal strings
\* and the sort text as given; with no option set it carries none of
\* _limit, _offset, _sort, expand.
C4_ListQuery ==
    (op \in ListOps /\ Len(sent) > 0) =>
        /\ IntOptionSent(Req.rawQuery, <<"_", "l", "i", "m", "i", "t">>, args.limit)
        /\ IntOptionSent(Req.rawQuery, <<"_", "o", "f", "f", "s", "e", "t">>, args.offset)
        /\ StringOptionSent(Req.rawQuery, <<"_", "s", "o", "r", "t">>, args.sort)
        /\ (args.limit = Nil /\ args.offset = Nil /\ args.sort = Nil
            /\ SliceLen(args.expand) = 0) =>
               /\ Req.rawQuery = << >>
               /\ \A k \in {<<"_", "l", "i", "m", "i", "t">>, <<"_", "o", "f", "f", "s", "e", "t">>, <<"_", "s", "o", "r", "t">>, <<"e", "x", "p", "a", "n", "d">>} :
                      NotSent(Req.rawQuery, k)

C4_Witness ==
    /\ op = "Snapshot.List" /\ Len(sent) > 0
    /\ args.limit = Ptr(10) /\ args.offset = Nil /\ args.sort = Ptr(<<"n", "a", "m", "e", ":", "a", "s", "c">>)
    /\ SliceLen(args.expand) = 0
    /\ Req.rawQuery = <<"_", "l", "i", "m", "i", "t", "=", "1", "0", "&", "_", "s", "o", "r", "t", "=", "n", "a", "m", "e", "%", "3", "A", "a", "s", "c">>

-----------------------------------------------------------------------------
(* C5 *)

\* The request carries one expand parameter, or none, as the list has elements or not.
ExpandSentIffNonEmpty ==
    IF SliceLen(args.expand) > 0 THEN SentOnce(Req.rawQuery, <<"e", "x", "p", "a", "n", "d">>)
    ELSE NotSent(Req.rawQuery, <<"e", "x", "p", "a", "n", "d">>)

\* C5 as stated: Get and List of the SnapshotService send expand exactly
\* when the list has elements, and its value as written in the URL is the
\* elements joined by literal commas, in the caller's order.
C5_LiteralComma ==
    (op \in {"Snapshot.Get", "Snapshot.List"} /\ Len(sent) > 0) =>
        /\ ExpandSentIffNonEmpty
        /\ SliceLen(args.expand) > 0 =>
              SplitOn(RawValues(Req.rawQuery, <<"e", "x", "p", "a", "n", "d">>)[1], ",") = SliceElems(args.expand)

\* C5 amended: Get and List of the SnapshotService send expand exactly when
\* the list has elements (not for a nil or an empty list); its value decodes
\* to the elements joined by commas in the caller's order, and in the URL
\* each comma is written %2C: Get(ctx, "snap-1", ["image", "machine-type"])
\* issues GET /v1/snapshots/snap-1?expand=image%2Cmachine-type.
C5_ExpandEncoded ==
    (op \in {"Snapshot.Get", "Snapshot.List"} /\ Len(sent) > 0) =>
        /\ ExpandSentIffNonEmpty
        /\ SliceLen(args.expand) > 0 =>
              /\ SplitOn(Decoded(Req.rawQuery, <<"e", "x", "p", "a", "n", "d">>), ",") = SliceElems(args.expand)
              /\ "," \notin Range(Req.rawQuery)
        /\ (/\ op = "Snapshot.Get" /\ args.id = <<"s", "n", "a", "p", "-", "1">>
            /\ args.expand = Ptr(<< <<"i", "m", "a", "g", "e">>, <<"m", "a", "c", "h", "i", "n", "e", "-", "t", "y", "p", "e">> >>)) =>
              /\ Req.method = "GET"
              /\ Req.path = <<"/", "v", "1", "/", "s", "n", "a", "p", "s", "h", "o", "t", "s", "/", "s", "n", "a", "p", "-", "1">>
              /\ Req.rawQuery = <<"e", "x", "p", "a", "n", "d", "=", "i", "m", "a", "g", "e", "%", "2", "C", "m", "a", "c", "h", "i", "n", "e", "-", "t", "y", "p", "e">>

C5_Witness ==
    /\ op = "Snapshot.Get" /\ Len(sent) > 0
    /\ args.id = <<"s", "n", "a", "p", "-", "1">>
    /\ args.expand = Ptr(<< <<"i", "m", "a", "g", "e">>, <<"m", "a", "c", "h", "i", "n", "e", "-", "t", "y", "p", "e">> >>)
    /\ Req.rawQuery = <<"e", "x", "p", "a", "n", "d", "=", "i", "m", "a", "g", "e", "%", "2", "C", "m", "a", "c", "h", "i", "n", "e", "-", "t", "y", "p", "e">>

-----------------------------------------------------------------------------
(* C6 *)

\* C6: an invocation hands exactly one request to the execute helper when
\* its validation passed and the request constructor succeeded, none when
\* it returned a validation error or the constructor failed, and never a
\* second one, whatever the helper answered.
C6_OneRequest ==
    /\ Len(ctorCalls) <= 1
    /\ Len(sent) <= 1
    /\ pc = "inflight" => Len(sent) = 1
    /\ pc = "returned" =>
          /\ Len(sent) = 1 <=> (Len(ctorCalls) = 1 /\ ctorErr = NoErr)
          /\ err.kind = "ValidationError" => NoNetworkCall
          /\ doErr # NoErr => Len(sent) = 1

C6_Witness ==
    /\ pc = "returned" /\ op = "Snapshot.Delete"
    /\ Len(sent) = 1 /\ doErr.kind = "transport"

-----------------------------------------------------------------------------
(* C7 *)

DiscardOps ==
    {"HealthCheck.Delete", "HealthCheck.Update", "Snapshot.Delete",
     "Snapshot.Rename", "Snapshot.Copy", "NodePool.Delete"}

\* C7: an operation that discards the response body returns a non-nil
\* error whenever the execute helper reported an error, and nil only when
\* the helper reported success.
C7_DiscardOpsPropagate ==
    (pc = "returned" /\ op \in DiscardOps) =>
        /\ doErr # NoErr => err # NoErr
        /\ err = NoErr => (Len(sent) = 1 /\ doErr = NoErr)

C7_Witness ==
    /\ pc = "returned" /\ op = "Snapshot.Rename" /\ Len(sent) = 1
    /\ doErr.kind = "transport" /\ err # NoErr

-----------------------------------------------------------------------------
(* C8 *)

\* The zero value of what the operation returns beside its error.
ZeroOf(o) ==
    IF o \in {"Snapshot.Create", "Snapshot.Restore"} THEN [kind |-> "string", v |-> << >>]
    ELSE IF o \in DiscardOps THEN [kind |-> "void", v |-> << >>]
    ELSE [kind |-> "nil", v |-> << >>]

\* C8: an error of the request constructor or of the execute helper is
\* returned to the caller as it is, with the zero result.
C8_ErrorsUnchanged ==
    pc = "returned" =>
        /\ ctorErr # NoErr => (err = ctorErr /\ result = ZeroOf(op))
        /\ doErr # NoErr => (err = doErr /\ result = ZeroOf(op))

C8_Witness ==
    /\ pc = "returned" /\ op = "Snapshot.Restore"
    /\ doErr.kind = "decode" /\ err = doErr /\ result.kind = "string" /\ result.v = << >>

-----------------------------------------------------------------------------
(* C9 *)

\* The verb and path NodePoolService is to use for each operation.
NodePoolVerb(o) ==
    CASE o \in {"NodePool.List", "NodePool.Get", "NodePool.Nodes"} -> "GET"
      [] o = "NodePool.Create" -> "POST"
      [] o = "NodePool.Update" -> "PATCH"
      [] o = "NodePool.Delete" -> "DELETE"

NodePoolPath(o, clusterID, nodePoolID) ==
    CASE o = "NodePool.List" -> <<"/", "v", "1", "a", "l", "p", "h", "a", "0", "/", "c", "l", "u", "s", "t", "e", "r", "s", "/">> \o clusterID \o <<"/", "n", "o", "d", "e", "-", "p", "o", "o", "l", "s">>
      [] o = "NodePool.Create" -> <<"/", "v", "0", "/", "c", "l", "u", "s", "t", "e", "r", "s", "/">> \o clusterID \o <<"/", "n", "o", "d", "e", "_", "p", "o", "o", "l", "s">>
      [] o \in {"NodePool.Get", "NodePool.Update", "NodePool.Delete"} ->
            <<"/", "v", "0", "/", "c", "l", "u", "s", "t", "e", "r", "s", "/">> \o clusterID \o <<"/", "n", "o", "d", "e", "_", "p", "o", "o", "l", "s", "/">> \o nodePoolID
      [] o = "NodePool.Nodes" ->
            <<"/", "v", "0", "/", "c", "l", "u", "s", "t", "e", "r", "s", "/">> \o clusterID \o <<"/", "n", "o", "d", "e", "_", "p", "o", "o", "l", "s", "/">> \o nodePoolID \o <<"/", "n", "o", "d", "e", "s">>

HasPrefix(s, p) == Len(s) >= Len(p) /\ SubSeq(s, 1, Len(p)) = p

\* C9: every request of NodePoolService has the verb and the path of its
\* operation, the identifiers substituted as given; List alone is under
\* /v1alpha0; List(ctx, "cl-1", {Limit: 10}) issues
\* GET /v1alpha0/clusters/cl-1/node-pools?_limit=10.
C9_NodePoolRoutes ==
    (op \in NodePoolOps /\ Len(ctorCalls) = 1) =>
        /\ ctorCalls[1].method = NodePoolVerb(op)
        /\ ctorCalls[1].path = NodePoolPath(op, args.clusterID, args.nodePoolID)
        /\ HasPrefix(ctorCalls[1].path, <<"/", "v", "1", "a", "l", "p", "h", "a", "0", "/">>) <=> op = "NodePool.List"
        /\ Len(sent) = 1 =>
              /\ Req.method = ctorCalls[1].method
              /\ Req.path = ctorCalls[1].path
        /\ (/\ Len(sent) = 1 /\ op = "NodePool.List" /\ args.clusterID = <<"c", "l", "-", "1">>
            /\ args.limit = Ptr(10) /\ args.offset = Nil /\ args.sort = Nil) =>
              /\ Req.method = "GET"
              /\ Req.path = <<"/", "v", "1", "a", "l", "p", "h", "a", "0", "/", "c", "l", "u", "s", "t", "e", "r", "s", "/", "c", "l", "-", "1", "/", "n", "o", "d", "e", "-", "p", "o", "o", "l", "s">>
              /\ Req.rawQuery = <<"_", "l", "i", "m", "i", "t", "=", "1", "0">>

C9_Witness ==
    /\ Len(sent) = 1 /\ op = "NodePool.List" /\ args.clusterID = <<"c", "l", "-", "1">>
    /\ args.limit = Ptr(10) /\ args.offset = Nil /\ args.sort = Nil
    /\ Req.rawQuery = <<"_", "l", "i", "m", "i", "t", "=", "1", "0">>

-----------------------------------------------------------------------------
(* C10 *)

SnapshotVerb(o) ==
    CASE o \in {"Snapshot.List", "Snapshot.Get"} -> "GET"
      [] o \in {"Snapshot.Create", "Snapshot.Restore", "Snapshot.Copy"} -> "POST"
      [] o = "Snapshot.Delete" -> "DELETE"
      [] o = "Snapshot.Rename" -> "PATCH"

SnapshotPath(o, id) ==
    CASE o \in {"Snapshot.List", "Snapshot.Create"} -> <<"/", "v", "1", "/", "s", "n", "a", "p", "s", "h", "o", "t", "s">>
      [] o \in {"Snapshot.Get", "Snapshot.Delete", "Snapshot.Restore"} -> <<"/", "v", "1", "/", "s", "n", "a", "p", "s", "h", "o", "t", "s", "/">> \o id
      [] o = "Snapshot.Rename" -> <<"/", "v", "1", "/", "s", "n", "a", "p", "s", "h", "o", "t", "s", "/">> \o id \o <<"/", "r", "e", "n", "a", "m", "e">>
      [] o = "Snapshot.Copy" -> <<"/", "v", "1", "/", "s", "n", "a", "p", "s", "h", "o", "t", "s", "/">> \o id \o <<"/", "c", "o", "p", "y">>

\* Every request of SnapshotService has the verb and the path of its operation.
SnapshotRoutes ==
    (op \in SnapshotOps /\ Len(sent) = 1) =>
        /\ Req.method = SnapshotVerb(op)
        /\ Req.path = SnapshotPath(op, args.id)

\* The operation takes no id, or its id is not empty.
IdGiven(o, id) == o \in {"Snapshot.List", "Snapshot.Create"} \/ id # << >>

\* The operation takes no id, or its id is not empty and has no "/" in it.
IdGivenNoSlash(o, id) == o \in {"Snapshot.List", "Snapshot.Create"} \/ (id # << >> /\ "/" \notin Range(id))

\* The previous request and this one are of two operations and have the same verb and path.
SameRoute ==
    /\ prev.op # "" /\ Len(sent) = 1 /\ prev.op # op
    /\ prev.method = Req.method /\ prev.path = Req.path

\* C10 as stated: every SnapshotService request has the verb and path of
\* its operation, and for non-empty ids no two operations issue the same
\* verb and path.
C10_RoutesDistinct ==
    /\ SnapshotRoutes
    /\ (IdGiven(prev.op, prev.id) /\ IdGiven(op, args.id)) => ~SameRoute

\* C10 amended: every SnapshotService request has the verb and path of its
\* operation, and for non-empty ids that contain no "/" no two operations
\* issue the same verb and path.
C10_RoutesDistinctNoSlash ==
    /\ SnapshotRoutes
    /\ (IdGivenNoSlash(prev.op, prev.id) /\ IdGivenNoSlash(op, args.id)) => ~SameRoute

C10_Witness ==
    /\ prev.op = "Snapshot.Restore" /\ prev.id = <<"a">>
    /\ op = "Snapshot.Copy" /\ args.id = <<"a">> /\ Len(sent) = 1
    /\ Req.method = prev.method /\ Req.path # prev.path

-----------------------------------------------------------------------------
(* C11 *)

HealthCheckVerb(o) ==
    CASE o = "HealthCheck.Create" -> "POST"
      [] o \in {"HealthCheck.List", "HealthCheck.Get"} -> "GET"
      [] o = "HealthCheck.Update" -> "PUT"
      [] o = "HealthCheck.Delete" -> "DELETE"

\* The health checks of a load balancer, and one of them.
HealthCheckCollectionPath(lbID) ==
    <<"/", "v", "1", "/", "n", "e", "t", "w", "o", "r", "k", "-", "l", "o", "a", "d", "-", "b", "a", "l", "a", "n", "c", "e", "r", "s", "/">> \o lbID \o <<"/", "h", "e", "a", "l", "t", "h", "-", "c", "h", "e", "c", "k", "s">>
HealthCheckItemPath(lbID, hcID) == HealthCheckCollectionPath(lbID) \o <<"/">> \o hcID

\* C11: Update of the NetworkHealthCheckService issues PUT, never PATCH,
\* to the path of the health check built from LoadBalancerID and
\* HealthCheckID, with the whole update record as body; Create issues POST
\* and List GET to the load balancer's health-checks collection; Get and
\* Delete issue GET and DELETE to the path Update uses.
C11_HealthCheckRoutes ==
    (op \in HealthCheckOps /\ Len(ctorCalls) = 1) =>
        /\ ctorCalls[1].method = HealthCheckVerb(op)
        /\ op = "HealthCheck.Update" =>
              /\ ctorCalls[1].method # "PATCH"
              /\ ctorCalls[1].body = <<"UpdateNetworkHealthCheckRequest", args.body>>
        /\ ctorCalls[1].path =
              IF op \in HealthCheckItemOps THEN HealthCheckItemPath(args.lbID, args.hcID)
              ELSE HealthCheckCollectionPath(args.lbID)
        /\ op \in {"HealthCheck.Get", "HealthCheck.Delete", "HealthCheck.List"} =>
              ctorCalls[1].body = << >>
        /\ Len(sent) = 1 =>
              /\ Req.method = ctorCalls[1].method
              /\ Req.path = ctorCalls[1].path
              /\ Req.body = ctorCalls[1].body

C11_Witness ==
    /\ op = "HealthCheck.Update" /\ Len(sent) = 1
    /\ args.lbID = <<"l", "b", "1">> /\ args.hcID = <<"h", "c", "1">>
    /\ Req.method = "PUT"
    /\ Req.path = <<"/", "v", "1", "/", "n", "e", "t", "w", "o", "r", "k", "-", "l", "o", "a", "d", "-", "b", "a", "l", "a", "n", "c", "e", "r", "s", "/", "l", "b", "1", "/", "h", "e", "a", "l", "t", "h", "-", "c", "h", "e", "c", "k", "s", "/", "h", "c", "1">>

-----------------------------------------------------------------------------
(* C12 *)

CredentialsOps == {"Credentials.Get", "Credentials.ResetPassword"}

\* C12: Get of the CredentialsService always issues GET /v0/credentials
\* and ResetPassword POST /v0/credentials/password, with no body and no
\* query, and nothing is validated before; each returns the decoded
\* credentials when the helper succeeds and (nil, err) when it fails.
C12_Credentials ==
    (op \in CredentialsOps) =>
        /\ Len(ctorCalls) = 1
        /\ ctorCalls[1].method = (IF op = "Credentials.Get" THEN "GET" ELSE "POST")
        /\ ctorCalls[1].path =
              (IF op = "Credentials.Get" THEN <<"/", "v", "0", "/", "c", "r", "e", "d", "e", "n", "t", "i", "a", "l", "s">>
               ELSE <<"/", "v", "0", "/", "c", "r", "e", "d", "e", "n", "t", "i", "a", "l", "s", "/", "p", "a", "s", "s", "w", "o", "r", "d">>)
        /\ ctorCalls[1].body = << >>
        /\ err.kind # "ValidationError"
        /\ Len(sent) = 1 =>
              /\ Req.method = ctorCalls[1].method /\ Req.path = ctorCalls[1].path
              /\ Req.body = << >> /\ Req.rawQuery = << >>
        /\ (pc = "returned" /\ Len(sent) = 1) =>
              IF doErr = NoErr
              THEN err = NoErr /\ result.kind = "ptr" /\ result.v[1] \in Payloads
              ELSE err = doErr /\ result.kind = "nil"
        /\ (pc = "returned" /\ ctorErr # NoErr) => (err = ctorErr /\ result.kind = "nil")

C12_Witness ==
    /\ op = "Credentials.ResetPassword" /\ pc = "returned" /\ Len(sent) = 1
    /\ Req.method = "POST" /\ doErr = NoErr /\ result.kind = "ptr"

-----------------------------------------------------------------------------
(* C15 *)

\* C15: the context the caller passed is the context of every constructor
\* call, of the request built and of every call of the execute helper in
\* the invocation; no other context takes its place.
C15_ContextUnchanged ==
    /\ \A i \in 1..Len(ctorCalls) : ctorCalls[i].ctx = args.ctx
    /\ \A i \in 1..Len(sent) : sent[i].ctx = args.ctx /\ sent[i].req.ctx = args.ctx

C15_Witness ==
    /\ op = "Snapshot.Delete" /\ pc = "returned" /\ Len(sent) = 1
    /\ args.ctx = "ctxB" /\ sent[1].ctx = "ctxB" /\ ctorCalls[1].ctx = "ctxB"

-----------------------------------------------------------------------------
(* C16 *)

\* C16: Nodes, Get, Update and Delete of the NodePoolService check
\* clusterID first: with both identifiers empty the validation error names
\* "clusterID", and an error naming "nodePoolID" comes only with a
\* clusterID that is not empty.
C16_ClusterFirst ==
    (op \in NodePoolItemOps /\ pc = "returned") =>
        /\ (args.clusterID = << >> /\ args.nodePoolID = << >>) =>
              (err.kind = "ValidationError" /\ err.Field = "clusterID")
        /\ (err.kind = "ValidationError" /\ err.Field = "nodePoolID") =>
              args.clusterID # << >>

C16_Witness ==
    /\ op = "NodePool.Get" /\ pc = "returned"
    /\ args.clusterID = << >> /\ args.nodePoolID = << >>
    /\ err.Field = "clusterID"

-----------------------------------------------------------------------------
(* C13 *)

CreateOps == {"NodePool.Create", "Snapshot.Create", "HealthCheck.Create"}

\* The object written has a member at this key path.
HasMember(json, path) == \E member \in json : member[1] = path

\* The key is in the object exactly when the pointer field is set.
MemberIffSet(json, path, field) == HasMember(json, path) <=> (field # << >>)

\* The key paths of the optional fields and of the required fields of the
\* record of a Create operation.
OptionalKeys(o) ==
    CASE o = "NodePool.Create" ->
            { <<"tags">>, <<"taints">>, <<"auto_scale">>, <<"max_pods_per_node">>,
              <<"availability_zones">>,
              <<"auto_scale", "min_replicas">>, <<"auto_scale", "max_replicas">> }
      [] o = "Snapshot.Create" -> {}
      [] o = "HealthCheck.Create" ->
            { <<"description">>, <<"path">>, <<"healthy_status_code">>,
              <<"interval_seconds">>, <<"timeout_seconds">>, <<"initial_delay_seconds">>,
              <<"healthy_threshold_count">>, <<"unhealthy_threshold_count">> }

RequiredKeys(o) ==
    CASE o = "NodePool.Create" -> { <<"name">>, <<"flavor">>, <<"replicas">> }
      [] o = "Snapshot.Create" -> { <<"name">>, <<"instance">> }
      [] o = "HealthCheck.Create" -> { <<"name">>, <<"protocol">>, <<"port">> }

\* Each optional field of the record is written exactly when it is set.
OptionalsIffSet(o, json, r) ==
    CASE o = "NodePool.Create" ->
            /\ MemberIffSet(json, <<"tags">>, r.Tags)
            /\ MemberIffSet(json, <<"taints">>, r.Taints)
            /\ MemberIffSet(json, <<"auto_scale">>, r.AutoScale)
            /\ MemberIffSet(json, <<"max_pods_per_node">>, r.MaxPodsPerNode)
            /\ MemberIffSet(json, <<"availability_zones">>, r.AvailabilityZones)
            /\ r.AutoScale = << >> =>
                  /\ ~ HasMember(json, <<"auto_scale", "min_replicas">>)
                  /\ ~ HasMember(json, <<"auto_scale", "max_replicas">>)
            /\ r.AutoScale # << >> =>
                  /\ MemberIffSet(json, <<"auto_scale", "min_replicas">>,
                                  r.AutoScale[1].MinReplicas)
                  /\ MemberIffSet(json, <<"auto_scale", "max_replicas">>,
                                  r.AutoScale[1].MaxReplicas)
      [] o = "Snapshot.Create" -> TRUE
      [] o = "HealthCheck.Create" ->
            /\ MemberIffSet(json, <<"description">>, r.Description)
            /\ MemberIffSet(json, <<"path">>, r.Path)
            /\ MemberIffSet(json, <<"healthy_status_code">>, r.HealthyStatusCode)
            /\ MemberIffSet(json, <<"interval_seconds">>, r.IntervalSeconds)
            /\ MemberIffSet(json, <<"timeout_seconds">>, r.TimeoutSeconds)
            /\ MemberIffSet(json, <<"initial_delay_seconds">>, r.InitialDelaySeconds)
            /\ MemberIffSet(json, <<"healthy_threshold_count">>, r.HealthyThresholdCount)
            /\ MemberIffSet(json, <<"unhealthy_threshold_count">>, r.UnhealthyThresholdCount)

\* C13: the JSON body written for a Create request record
\* (CreateNodePoolRequest with its nested AutoScale,
\* CreateNetworkHealthCheckRequest, CreateSnapshotRequest) has the key of
\* an optional field exactly when the field is set and writes no null for
\* an unset one; every required field is there, and no other key, so
\* LoadBalancerID, which goes to the path, is not in the body.
C13_OptionalOmitted ==
    (op \in CreateOps /\ Len(sent) = 1) =>
        /\ OptionalsIffSet(op, Req.json, args.body)
        /\ \A member \in Req.json : member[2] # "null"
        /\ \A path \in RequiredKeys(op) : HasMember(Req.json, path)
        /\ \A member \in Req.json : member[1] \in RequiredKeys(op) \cup OptionalKeys(op)

-----------------------------------------------------------------------------
(* C17 *)

\* This List call and the previous one agree on everything but Expand.
AgreeButExpand ==
    /\ last.args.clusterID = args.clusterID
    /\ last.args.limit = args.limit
    /\ last.args.offset = args.offset
    /\ last.args.sort = args.sort
    /\ last.args.expand # args.expand

\* C17: List of the NodePoolService ignores ListOptions.Expand: two calls
\* that agree on clusterID, Limit, Offset and Sort and differ in Expand
\* issue the same request (verb, path, query, body), and the query never
\* has an expand parameter, whatever Expand holds.
C17_ExpandIgnored ==
    (op = "NodePool.List" /\ Len(sent) = 1) =>
        /\ NotSent(Req.rawQuery, keyExpand)
        /\ (Len(last.sent) = 1 /\ AgreeButExpand) =>
              /\ Req.method = last.sent[1].req.method
              /\ Req.path = last.sent[1].req.path
              /\ Req.rawQuery = last.sent[1].req.rawQuery
              /\ Req.body = last.sent[1].req.body

C17_Witness ==
    /\ op = "NodePool.List" /\ Len(sent) = 1 /\ Len(last.sent) = 1
    /\ AgreeButExpand
    /\ args.limit # << >> /\ args.sort # << >>
    /\ SliceLen(args.expand) = 2 /\ SliceLen(last.args.expand) = 1
    /\ Req.rawQuery = last.sent[1].req.rawQuery

-----------------------------------------------------------------------------
(* C14 *)

\* The verb and the path of the request of an operation on its arguments.
VerbOf(o) == IF o \in SnapshotOps THEN SnapshotVerb(o) ELSE NodePoolVerb(o)
PathOf(o, a) ==
    IF o \in SnapshotOps THEN SnapshotPath(o, a.id)
    ELSE NodePoolPath(o, a.clusterID, a.nodePoolID)

\* The call of a caller is what it is when the caller is alone: the request
\* has the caller's context, the verb and the path of its operation on its
\* own arguments, the query of its own options and the body it gave; the
\* configuration read is the one the client was constructed with; and the
\* answer is that of its own constructor and helper outcome.
AsAlone(k) ==
    /\ k.pc # "idle" => k.config = NewClient.config
    /\ \A i \in 1..Len(k.ctorCalls) : k.ctorCalls[i].ctx = k.args.ctx
    /\ Len(k.sent) > 0 =>
          /\ Len(k.sent) = 1 /\ Len(k.ctorCalls) = 1
          /\ k.sent[1].ctx = k.args.ctx
          /\ k.sent[1].req.method = VerbOf(k.op)
          /\ k.sent[1].req.path = PathOf(k.op, k.args)
          /\ k.sent[1].req.body = k.ctorCalls[1].body
          /\ IntOptionSent(k.sent[1].req.rawQuery, keyLimit, k.args.limit)
          /\ IF SliceLen(k.args.expand) > 0
             THEN /\ SentOnce(k.sent[1].req.rawQuery, keyExpand)
                  /\ Decoded(k.sent[1].req.rawQuery, keyExpand) =
                        Join(SliceElems(k.args.expand), <<",">>)
             ELSE NotSent(k.sent[1].req.rawQuery, keyExpand)
    /\ k.pc = "returned" =>
          /\ k.err = NoErr <=> (Len(k.sent) = 1 /\ k.doErr = NoErr)
          /\ Len(k.sent) = 1 => k.err = k.doErr
          /\ (Len(k.sent) = 0 /\ Len(k.ctorCalls) = 1) => k.err = k.ctorErr
          /\ Len(k.ctorCalls) = 0 => k.err.kind = "ValidationError"

\* A step changes the locals of one caller at most, leaves the request and
\* the arguments of a call in flight as they are, and writes no client.
OwnLocalsOnly ==
    /\ client' = client
    /\ \A c \in Callers :
          /\ calls'[c] # calls[c] => \A d \in Callers \ {c} : calls'[d] = calls[d]
          /\ calls[c].pc = "inflight" =>
                (calls'[c].sent = calls[c].sent /\ calls'[c].args = calls[c].args)

\* C14: concurrent invocations on the same service object are independent:
\* under every interleaving the request of each call (verb, path, query,
\* body) and its result are those of the call alone, and no call writes
\* state another call shares; the client and its configuration are only
\* read.
C14_Independent ==
    /\ [](\A c \in Callers : AsAlone(calls[c]))
    /\ [][OwnLocalsOnly]_vars

C14_Witness ==
    /\ calls[1].op = "Snapshot.Get" /\ calls[1].pc = "returned"
    /\ calls[1].err = NoErr /\ SliceLen(calls[1].args.expand) = 1
    /\ calls[2].op = "Snapshot.List" /\ calls[2].pc = "inflight"
    /\ calls[2].args.limit # << >>
    /\ calls[2].sent[1].req.path # calls[1].sent[1].req.path

=============================================================================
